---- MODULE Spec2Model ----
(***************************************************************************)
(* Simple Binary Dictionary Protocol (sbdp.py): the encoder, the decoder   *)
(* and the socket transport (recvall, send_message, recv_message).         *)
(*                                                                         *)
(* Data representation.                                                    *)
(*   byte string      : sequence of 0..255                                 *)
(*   str              : sequence of Unicode code points                    *)
(*   int              : <<sign, m1..m8>>, sign 0/1 and a big-endian        *)
(*                      magnitude of 8 bytes (Python ints are              *)
(*                      sign-magnitude; TLC integers are 32 bits wide)     *)
(*   float            : <<sign, exponent(11 bits), nibble, f1..f6>>, the   *)
(*                      IEEE-754 binary64 fields, fraction = nibble,f1..f6 *)
(*   message (dict)   : sequence of fields [key, typ, value] with distinct *)
(*                      keys, in the dict's iteration order                *)
(*   decoded dict     : function from keys to <<typ, value>>               *)
(***************************************************************************)
EXTENDS Integers, Sequences, FiniteSets, TLC

\* ------------------------------------------------------------------------
\* Bounds of the model
\* ------------------------------------------------------------------------
MaxFields == 2

MaxMsgs == 2

\* ------------------------------------------------------------------------
\* Type codes (sbdp.py 46-50)
\* ------------------------------------------------------------------------
TYPE_INT64 == 1

TYPE_UINT64 == 2

TYPE_FLOAT64 == 3

TYPE_STRING == 4

TYPE_BINARY == 5

\* ------------------------------------------------------------------------
\* struct.pack / struct.unpack, network byte order (sbdp.py 53-58)
\* ------------------------------------------------------------------------
\* A length of 2^30 or more is represented by 2^30: it exceeds the length of
\* every buffer of the model, and the code uses a decoded length only as a
\* slice bound and as a cursor increment.
HugeLen == 1073741824

pack_U8(n) == <<n>>

pack_U16(n) == <<n \div 256, n % 256>>

pack_U32_le(n) ==
    <<n % 256, (n \div 256) % 256, (n \div 65536) % 256, n \div 16777216>>

pack_U32(n) ==
    <<n \div 16777216, (n \div 65536) % 256, (n \div 256) % 256, n % 256>>

unpack_U8(b) == b[1]

unpack_U16(b) == b[1] * 256 + b[2]

unpack_U32(b) ==
    IF b[1] >= 64 THEN HugeLen
    ELSE b[1] * 16777216 + b[2] * 65536 + b[3] * 256 + b[4]

\* 2^64 - b for an 8-byte big-endian magnitude b (two's complement negation)
Neg8(b) ==
    LET inv == [i \in 1..8 |-> 255 - b[i]]
    IN  [i \in 1..8 |-> IF \A j \in (i+1)..8 : inv[j] = 255
                        THEN (inv[i] + 1) % 256 ELSE inv[i]]

Mag(v) == SubSeq(v, 2, 9)

MinI64Mag == <<128, 0, 0, 0, 0, 0, 0, 0>>

\* struct.pack raises struct.error for an integer out of the format's range
InRangeI64(v) ==
    \/ v[1] = 0 /\ Mag(v)[1] < 128
    \/ v[1] = 1 /\ (Mag(v)[1] < 128 \/ Mag(v) = MinI64Mag)

InRangeU64(v) == v[1] = 0

pack_I64(v) == IF v[1] = 1 THEN Neg8(Mag(v)) ELSE Mag(v)

unpack_I64_unsigned(b) == <<0>> \o b

unpack_I64(b) == IF b[1] >= 128 THEN <<1>> \o Neg8(b) ELSE <<0>> \o b

pack_U64(v) == Mag(v)

unpack_U64(b) == <<0>> \o b

pack_F64(v) ==
    <<(v[1] * 128) + (v[2] \div 16), ((v[2] % 16) * 16) + v[3]>>
        \o SubSeq(v, 4, 9)

unpack_F64(b) ==
    <<b[1] \div 128, ((b[1] % 128) * 16) + (b[2] \div 16), b[2] % 16>>
        \o SubSeq(b, 3, 8)

\* ------------------------------------------------------------------------
\* str.encode('utf-8') and bytes.decode('utf-8')
\* ------------------------------------------------------------------------
IsSurrogate(cp) == cp >= 55296 /\ cp <= 57343

utf8_char(cp) ==
    IF cp < 128 THEN <<cp>>
    ELSE IF cp < 2048 THEN <<192 + (cp \div 64), 128 + (cp % 64)>>
    ELSE IF cp < 65536
         THEN <<224 + (cp \div 4096), 128 + ((cp \div 64) % 64),
                128 + (cp % 64)>>
    ELSE <<240 + (cp \div 262144), 128 + ((cp \div 4096) % 64),
           128 + ((cp \div 64) % 64), 128 + (cp % 64)>>

RECURSIVE utf8_encode(_)
utf8_encode(s) ==
    IF s = <<>> THEN <<>> ELSE utf8_char(Head(s)) \o utf8_encode(Tail(s))

IsCont(b) == b >= 128 /\ b <= 191

utf8_seqlen_lax(b) == 1

\* number of bytes of the well-formed UTF-8 sequence at the head of b, or 0
utf8_seqlen(b) ==
    LET b1 == b[1]
        n  == Len(b)
    IN  IF b1 < 128 THEN 1
        ELSE IF b1 >= 194 /\ b1 <= 223
             THEN IF n >= 2 /\ IsCont(b[2]) THEN 2 ELSE 0
        ELSE IF b1 >= 224 /\ b1 <= 239
             THEN IF /\ n >= 3
                     /\ IsCont(b[2])
                     /\ IsCont(b[3])
                     /\ (b1 = 224 => b[2] >= 160)
                     /\ (b1 = 237 => b[2] <= 159)
                  THEN 3 ELSE 0
        ELSE IF b1 >= 240 /\ b1 <= 244
             THEN IF /\ n >= 4
                     /\ IsCont(b[2])
                     /\ IsCont(b[3])
                     /\ IsCont(b[4])
                     /\ (b1 = 240 => b[2] >= 144)
                     /\ (b1 = 244 => b[2] <= 143)
                  THEN 4 ELSE 0
        ELSE 0

utf8_cp(b, k) ==
    IF k = 1 THEN b[1]
    ELSE IF k = 2 THEN (b[1] - 192) * 64 + (b[2] - 128)
    ELSE IF k = 3
         THEN (b[1] - 224) * 4096 + (b[2] - 128) * 64 + (b[3] - 128)
    ELSE (b[1] - 240) * 262144 + (b[2] - 128) * 4096
             + (b[3] - 128) * 64 + (b[4] - 128)

\* e(v), with v evaluated once: TLC evaluates the definition of a LET and
\* the argument of an operator at each of their uses when it evaluates
\* ENABLED
Bind(v, e(_)) == CHOOSE x \in { e(y) : y \in {v} } : TRUE

\* the code points of the well-formed sequences of v from byte i on, ended
\* by -1 where a byte begins none
utf8_points(v) ==
    LET dec[i \in 1..(Len(v) + 1)] ==
            IF i > Len(v) THEN <<>>
            ELSE LET t == SubSeq(v, i, Len(v))
                     k == utf8_seqlen(t)
                 IN  IF k = 0 THEN <<-1>>
                     ELSE <<utf8_cp(t, k)>> \o dec[i + k]
    IN  dec[1]

\* [ok, s]: ok is FALSE where bytes.decode raises UnicodeDecodeError
utf8_decode(b) ==
    Bind(b, LAMBDA v :
        Bind(utf8_points(v), LAMBDA r :
            IF \E i \in 1..Len(r) : r[i] = -1
            THEN [ok |-> FALSE, s |-> <<>>]
            ELSE [ok |-> TRUE, s |-> r]))

\* Python slice b[lo:hi] for 0 <= lo, 0 <= hi (bounds are clamped to len(b))
Slice(b, lo, hi) ==
    LET h == IF hi > Len(b) THEN Len(b) ELSE hi
    IN  IF lo >= h THEN <<>> ELSE SubSeq(b, lo + 1, h)

\* ------------------------------------------------------------------------
\* encode_message (sbdp.py 60-101)
\* ------------------------------------------------------------------------
Raise(kind) == [status |-> kind, bytes |-> <<>>]

EncodableStr(s) == \A i \in 1..Len(s) : ~IsSurrogate(s[i])

RECURSIVE encode_fields(_, _, _)

\* lines 97-98: a type tag that is none of the five
encode_unknown_skip(data, i, parts) == encode_fields(data, i + 1, parts)

encode_unknown(data, i, parts) == Raise("UnsupportedType")

\* the for loop of lines 72-98 from field i on, parts being the bytes of
\* the list `parts` joined; an exception discards parts
encode_fields(data, i, parts) ==
    IF i > Len(data) THEN [status |-> "ok", bytes |-> parts]
    ELSE
    LET key   == data[i].key
        typ   == data[i].typ
        value == data[i].value
    IN  IF ~EncodableStr(key) THEN Raise("UnicodeEncodeError")
        ELSE
        LET key_bytes == utf8_encode(key)
            key_length == Len(key_bytes)
            p2 == parts \o pack_U16(key_length) \o key_bytes
        IN  IF typ = "int64" THEN
                IF InRangeI64(value)
                THEN encode_fields(data, i + 1,
                         p2 \o pack_U8(TYPE_INT64) \o pack_I64(value))
                ELSE Raise("struct.error")
            ELSE IF typ = "uint64" THEN
                IF InRangeU64(value)
                THEN encode_fields(data, i + 1,
                         p2 \o pack_U8(TYPE_UINT64) \o pack_U64(value))
                ELSE Raise("struct.error")
            ELSE IF typ = "float64" THEN
                encode_fields(data, i + 1,
                    p2 \o pack_U8(TYPE_FLOAT64) \o pack_F64(value))
            ELSE IF typ = "string" THEN
                IF EncodableStr(value)
                THEN LET value_bytes == utf8_encode(value)
                     IN  encode_fields(data, i + 1,
                             p2 \o pack_U8(TYPE_STRING)
                                \o pack_U32(Len(value_bytes)) \o value_bytes)
                ELSE Raise("UnicodeEncodeError")
            ELSE IF typ = "binary" THEN
                encode_fields(data, i + 1,
                    p2 \o pack_U8(TYPE_BINARY)
                       \o pack_U32(Len(value)) \o value)
            ELSE encode_unknown(data, i, p2)

encode_message(data) ==
    LET r == encode_fields(data, 1, <<>>)
    IN  IF r.status = "ok"
        THEN LET payload == r.bytes
                 header  == pack_U32(Len(payload))
             IN  [status |-> "ok", bytes |-> header \o payload]
        ELSE r

\* ------------------------------------------------------------------------
\* decode_message (sbdp.py 103-156)
\* ------------------------------------------------------------------------
EmptyDict == [k \in {} |-> <<>>]

Put_first_wins(result, key, val) ==
    [k \in (DOMAIN result) \cup {key} |->
        IF k \in DOMAIN result THEN result[k] ELSE val]

\* result[key] = val
Put(result, key, val) ==
    [k \in (DOMAIN result) \cup {key} |-> IF k = key THEN val ELSE result[k]]

Fail(kind, offset, result, tc, short) ==
    [status |-> kind, offset |-> offset, result |-> result,
     type_code |-> tc, short |-> short]

Cont(offset, result, tc, short) ==
    [status |-> "ok", offset |-> offset, result |-> result,
     type_code |-> tc, short |-> short]

decode_header_nolen(message_bytes) ==
    IF Len(message_bytes) < 4 THEN "TooShort" ELSE "ok"

\* lines 113-118: the result of the two length checks
decode_header(message_bytes) ==
    IF Len(message_bytes) < 4 THEN "TooShort"
    ELSE LET total_length == unpack_U32(Slice(message_bytes, 0, 4))
         IN  IF Len(message_bytes) < 4 + total_length THEN "Incomplete"
             ELSE "ok"

decode_payload_rest(message_bytes) ==
    Slice(message_bytes, 4, Len(message_bytes))

decode_payload(message_bytes) ==
    LET total_length == unpack_U32(Slice(message_bytes, 0, 4))
    IN  Slice(message_bytes, 4, 4 + total_length)

\* lines 154-155: a type code that is none of the five
decode_unknown_skip(offset, result, type_code) ==
    Cont(offset, result, type_code, FALSE)

decode_unknown(offset, result, type_code) ==
    Fail("UnknownTypeCode", offset, result, type_code, FALSE)

\* line 124: the cursor after the key length
key_start(offset) == offset + 2

\* lines 144, 150: the cursor after the length of a string or binary value
after_length_stuck(offset) == offset

after_length(offset) == offset + 4

\* line 128: struct.unpack of an empty slice, no byte is left for the type
\* code
decode_no_type_stop(offset, result) == Cont(offset, result, -1, FALSE)

decode_no_type(offset, result) ==
    Fail("BufferUnderrun", offset, result, -1, FALSE)

\* One iteration of the while loop, lines 122-155.  struct.unpack raises
\* struct.error on a slice shorter than its format ("BufferUnderrun");
\* bytes.decode raises UnicodeDecodeError ("InvalidKeyEncoding",
\* "InvalidStringEncoding"); a slice itself never raises.  type_code is the
\* type code read (-1: none read); short tells that a string or binary
\* field declared more bytes than the payload has left.
decode_field(payload, offset, result) ==
    LET klb == Slice(payload, offset, offset + 2)
    IN  IF Len(klb) < 2
        THEN Fail("BufferUnderrun", offset, result, -1, FALSE)
        ELSE
    LET key_length == unpack_U16(klb)
        o1 == key_start(offset)
        kd == utf8_decode(Slice(payload, o1, o1 + key_length))
    IN  IF ~kd.ok
        THEN Fail("InvalidKeyEncoding", o1, result, -1, FALSE)
        ELSE
    LET key == kd.s
        o2  == o1 + key_length
        tcb == Slice(payload, o2, o2 + 1)
    IN  IF Len(tcb) < 1
        THEN decode_no_type(o2, result)
        ELSE
    LET type_code == unpack_U8(tcb)
        o3  == o2 + 1
        v8  == Slice(payload, o3, o3 + 8)
        l4  == Slice(payload, o3, o3 + 4)
    IN  IF type_code = TYPE_INT64 THEN
            IF Len(v8) < 8
            THEN Fail("BufferUnderrun", o3, result, type_code, FALSE)
            ELSE Cont(o3 + 8, Put(result, key, <<"int64", unpack_I64(v8)>>),
                      type_code, FALSE)
        ELSE IF type_code = TYPE_UINT64 THEN
            IF Len(v8) < 8
            THEN Fail("BufferUnderrun", o3, result, type_code, FALSE)
            ELSE Cont(o3 + 8, Put(result, key, <<"uint64", unpack_U64(v8)>>),
                      type_code, FALSE)
        ELSE IF type_code = TYPE_FLOAT64 THEN
            IF Len(v8) < 8
            THEN Fail("BufferUnderrun", o3, result, type_code, FALSE)
            ELSE Cont(o3 + 8, Put(result, key, <<"float64", unpack_F64(v8)>>),
                      type_code, FALSE)
        ELSE IF type_code = TYPE_STRING THEN
            IF Len(l4) < 4
            THEN Fail("BufferUnderrun", o3, result, type_code, FALSE)
            ELSE
            LET str_length == unpack_U32(l4)
                o4 == after_length(o3)
                short == str_length > Len(payload) - o4
                vd == utf8_decode(Slice(payload, o4, o4 + str_length))
            IN  IF ~vd.ok
                THEN Fail("InvalidStringEncoding", o4, result, type_code,
                          short)
                ELSE Cont(o4 + str_length,
                          Put(result, key, <<"string", vd.s>>),
                          type_code, short)
        ELSE IF type_code = TYPE_BINARY THEN
            IF Len(l4) < 4
            THEN Fail("BufferUnderrun", o3, result, type_code, FALSE)
            ELSE
            LET bin_length == unpack_U32(l4)
                o4 == after_length(o3)
                short == bin_length > Len(payload) - o4
                value == Slice(payload, o4, o4 + bin_length)
            IN  Cont(o4 + bin_length, Put(result, key, <<"binary", value>>),
                     type_code, short)
        ELSE decode_unknown(o3, result, type_code)

\* the whole of decode_message: [status, result, offset, plen]
RECURSIVE decode_loop(_, _, _)
decode_loop(payload, offset, result) ==
    IF ~(offset < Len(payload))
    THEN [status |-> "ok", result |-> result, offset |-> offset]
    ELSE Bind(decode_field(payload, offset, result), LAMBDA r :
             IF r.status = "ok"
             THEN decode_loop(payload, r.offset, r.result)
             ELSE [status |-> r.status, result |-> EmptyDict,
                   offset |-> r.offset])

decode_message(message_bytes) ==
    LET h == decode_header(message_bytes)
    IN  IF h # "ok"
        THEN [status |-> h, result |-> EmptyDict, offset |-> 0]
        ELSE decode_loop(decode_payload(message_bytes), 0, EmptyDict)

\* ------------------------------------------------------------------------
\* Inputs: the messages given to encode_message
\* ------------------------------------------------------------------------
Fld(k, t, v) == [key |-> k, typ |-> t, value |-> v]

KeyAge == <<97, 103, 101>>

I64_30  == <<0, 0, 0, 0, 0, 0, 0, 0, 30>>

I64_m1  == <<1, 0, 0, 0, 0, 0, 0, 0, 1>>

I64_min == <<1, 128, 0, 0, 0, 0, 0, 0, 0>>

I64_max == <<0, 127, 255, 255, 255, 255, 255, 255, 255>>

U64_max == <<0, 255, 255, 255, 255, 255, 255, 255, 255>>

U64_0   == <<0, 0, 0, 0, 0, 0, 0, 0, 0>>

\* 9.99 = 0x4023FAE147AE147B and -inf = 0xFFF0000000000000
F64_999 == <<0, 1026, 3, 250, 225, 71, 174, 20, 123>>

F64_ninf == <<1, 2047, 0, 0, 0, 0, 0, 0, 0>>

\* "A", the euro sign U+20AC and U+1F600
StrAEuro == <<65, 8364, 128512>>

\* fields whose type tag and value encode_message accepts
GoodFields ==
    { Fld(KeyAge, "int64", I64_30),
      Fld(<<>>, "int64", I64_min),
      Fld(<<97>>, "int64", I64_m1),
      Fld(<<98>>, "int64", I64_max),
      Fld(<<97>>, "uint64", U64_max),
      Fld(<<98>>, "uint64", U64_0),
      Fld(<<233>>, "float64", F64_999),
      Fld(<<>>, "float64", F64_ninf),
      Fld(<<>>, "string", <<>>),
      Fld(<<233>>, "string", StrAEuro),
      Fld(<<98>>, "binary", <<>>),
      Fld(KeyAge, "binary", <<0, 255>>) }

\* the tag "float" of the docstring (line 66) is not one the code accepts;
\* -1 is out of the range of uint64
BadFields ==
    { Fld(<<97>>, "float", F64_999),
      Fld(<<98>>, "uint64", I64_m1) }

FieldPool == GoodFields \cup BadFields

DistinctKeys(m) ==
    \A i, j \in 1..Len(m) : i # j => m[i].key # m[j].key

SeqsUpTo(S, n) == UNION { [1..k -> S] : k \in 0..n }

Messages == { m \in SeqsUpTo(FieldPool, MaxFields) : DistinctKeys(m) }

SupportedTypes == {"int64", "uint64", "float64", "string", "binary"}

\* the dict as a mapping: key -> <<typ, value>>
AsDict(m) ==
    [k \in { m[i].key : i \in 1..Len(m) } |->
        LET i == CHOOSE j \in 1..Len(m) : m[j].key = k
        IN  <<m[i].typ, m[i].value>>]

\* byte values written over one byte of a frame
FuzzBytes == {0, 4, 6, 255}

\* ------------------------------------------------------------------------
\* State
\* ------------------------------------------------------------------------
VARIABLES
    data,        \* the argument of encode_message
    enc,         \* its outcome: [status, bytes], status "none" before the call
    buf,         \* message_bytes, the argument of decode_message
    origin,      \* how buf was made: "frame", "prefix", "corrupt",
                 \* "trailing", "dup_last", "dup_first"
    extra,       \* the field added to the payload with a key it has already
    iters,       \* decode_message: the iterations of the loop begun so far
    payload,     \* decode_message: payload
    offset,      \* decode_message: offset
    result,      \* decode_message: result
    dpc,         \* decode_message: "idle", "ready", "loop", "returned", "raised"
    derr,        \* the error raised by decode_message, or "none"
    type_code,   \* the type code read by the last iteration (-1: none)
    shortSeen,   \* a string/binary field declared more bytes than were left
    sendq,       \* the messages the sending side has yet to send_message
    sentOK,      \* the messages whose send_message started writing, in order
    spc,         \* sender: "idle", "sendall", "failed", "closed"
    outbuf,      \* sendall: the bytes not yet written
    written,     \* every byte written to the stream so far, in order
    sres,        \* how the finished send_message calls ended, in order
    consumed,    \* how many of them the receiving side has read
    rpc,         \* recv_message: "idle", "header", "payload"
    n,           \* recvall: n
    rdata,       \* recvall: data
    eof,         \* recvall: a sock.recv returned b"" (line 173)
    split,       \* recv_message: a sock.recv returned fewer bytes than asked
    didRead,     \* recvall: sock.recv was called
    reads,       \* recvall: the calls of sock.recv so far
    reqOver,     \* recvall: a sock.recv asked for more than n - len(data)
    raStart,     \* the value of consumed when recvall was entered
    callStart,   \* the value of consumed when recv_message was entered
    header,      \* recv_message: header
    received     \* the outcomes of the finished recv_message calls

codecVars ==
    <<data, enc, buf, origin, extra, iters, payload, offset, result, dpc,
      derr, type_code, shortSeen>>

netVars ==
    <<sendq, sentOK, spc, outbuf, written, sres, consumed, rpc, n, rdata,
      eof, split, didRead, reads, reqOver, raStart, callStart, header,
      received>>

vars == <<codecVars, netVars>>

NetIdle ==
    /\ sentOK = <<>>
    /\ spc = "idle"
    /\ outbuf = <<>>
    /\ written = <<>>
    /\ sres = <<>>
    /\ consumed = 0
    /\ rpc = "idle"
    /\ n = 0
    /\ rdata = <<>>
    /\ eof = FALSE
    /\ split = FALSE
    /\ didRead = FALSE
    /\ reads = 0
    /\ reqOver = FALSE
    /\ raStart = 0
    /\ callStart = 0
    /\ header = <<>>
    /\ received = <<>>

NoEnc == [status |-> "none", bytes |-> <<>>]

InitCodec ==
    /\ data \in Messages
    /\ enc = NoEnc
    /\ buf = <<>>
    /\ origin = "none"
    /\ extra = <<>>
    /\ iters = 0
    /\ payload = <<>>
    /\ offset = 0
    /\ result = EmptyDict
    /\ dpc = "idle"
    /\ derr = "none"
    /\ type_code = -1
    /\ shortSeen = FALSE
    /\ sendq = <<>>
    /\ NetIdle

decVars == <<payload, offset, result, derr, type_code, shortSeen, iters>>

\* encode_message(data)
EncodeMessage ==
    /\ enc.status = "none"
    /\ enc' = encode_message(data)
    /\ UNCHANGED <<data, extra, buf, origin, dpc, decVars, netVars>>

\* the caller hands the frame to decode_message
FeedFrame ==
    /\ enc.status = "ok"
    /\ dpc = "idle"
    /\ buf' = enc.bytes
    /\ origin' = "frame"
    /\ dpc' = "ready"
    /\ UNCHANGED <<data, extra, enc, decVars, netVars>>

\* ... or a strict prefix of it
FeedPrefix ==
    /\ enc.status = "ok"
    /\ dpc = "idle"
    /\ \E k \in 0..(Len(enc.bytes) - 1) : buf' = SubSeq(enc.bytes, 1, k)
    /\ origin' = "prefix"
    /\ dpc' = "ready"
    /\ UNCHANGED <<data, extra, enc, decVars, netVars>>

\* ... or the frame with one byte overwritten
FeedCorrupt ==
    /\ enc.status = "ok"
    /\ dpc = "idle"
    /\ \E p \in 1..Len(enc.bytes) : \E v \in FuzzBytes :
          /\ v # enc.bytes[p]
          /\ buf' = [enc.bytes EXCEPT ![p] = v]
    /\ origin' = "corrupt"
    /\ dpc' = "ready"
    /\ UNCHANGED <<data, extra, enc, decVars, netVars>>

\* bytes that follow the frame in the buffer: one, two, and a whole field
Trailers ==
    { <<0>>, <<255, 255>>, <<0, 1, 97, 1, 0, 0, 0, 0, 0, 0, 0, 5>> }

\* ... or the frame followed by other bytes
FeedTrailing ==
    /\ enc.status = "ok"
    /\ dpc = "idle"
    /\ \E t \in Trailers : buf' = enc.bytes \o t
    /\ origin' = "trailing"
    /\ dpc' = "ready"
    /\ UNCHANGED <<data, extra, enc, decVars, netVars>>

\* ... or a frame, not made by encode_message, whose payload has one more
\* field with a key of the message, after its fields or before them
FeedDup ==
    /\ enc.status = "ok"
    /\ dpc = "idle"
    /\ \E f \in GoodFields : \E last \in BOOLEAN :
          /\ \E i \in 1..Len(data) : data[i].key = f.key
          /\ LET p  == SubSeq(enc.bytes, 5, Len(enc.bytes))
                 fb == encode_fields(<<f>>, 1, <<>>).bytes
             IN  buf' = pack_U32(Len(p) + Len(fb))
                           \o (IF last THEN p \o fb ELSE fb \o p)
          /\ extra' = <<f>>
          /\ origin' = IF last THEN "dup_last" ELSE "dup_first"
    /\ dpc' = "ready"
    /\ UNCHANGED <<data, enc, decVars, netVars>>

\* decode_message, lines 113-120
DecodeEnter ==
    /\ dpc = "ready"
    /\ \E h \in {decode_header(buf)} :
           IF h # "ok"
           THEN /\ dpc' = "raised"
                /\ derr' = h
                /\ UNCHANGED <<payload, offset, result>>
           ELSE /\ dpc' = "loop"
                /\ payload' = decode_payload(buf)
                /\ offset' = 0
                /\ result' = EmptyDict
                /\ derr' = "none"
    /\ iters' = 0
    /\ UNCHANGED <<data, extra, enc, buf, origin, type_code, shortSeen,
                   netVars>>

\* decode_message, one iteration of the loop of lines 121-155
DecodeField ==
    /\ dpc = "loop"
    /\ offset < Len(payload)
    /\ \E r \in {decode_field(payload, offset, result)} :
           /\ offset' = r.offset
           /\ type_code' = r.type_code
           /\ shortSeen' = (shortSeen \/ r.short)
           /\ IF r.status = "ok"
              THEN /\ result' = r.result
                   /\ UNCHANGED <<dpc, derr>>
              ELSE /\ dpc' = "raised"
                   /\ derr' = r.status
                   /\ UNCHANGED result
    /\ iters' = iters + 1
    /\ UNCHANGED <<data, extra, enc, buf, origin, payload, netVars>>

\* decode_message, line 156
DecodeReturn ==
    /\ dpc = "loop"
    /\ ~(offset < Len(payload))
    /\ dpc' = "returned"
    /\ UNCHANGED <<data, extra, enc, buf, origin, payload, offset, result,
                   derr, type_code, shortSeen, iters, netVars>>

NextCodec ==
    \/ EncodeMessage
    \/ FeedFrame
    \/ FeedPrefix
    \/ FeedCorrupt
    \/ FeedTrailing
    \/ FeedDup
    \/ DecodeEnter
    \/ DecodeField
    \/ DecodeReturn

Spec == InitCodec /\ [][NextCodec]_vars

\* decode_message is sequential code: a call that has begun takes its next
\* step
SpecFair ==
    /\ InitCodec
    /\ [][NextCodec]_vars
    /\ WF_vars(DecodeEnter)
    /\ WF_vars(DecodeField)
    /\ WF_vars(DecodeReturn)

\* ------------------------------------------------------------------------
\* Transport: recvall, send_message, recv_message (sbdp.py 158-205) over a
\* reliable in-order byte stream with one writer and one reader
\* ------------------------------------------------------------------------
\* the messages given to send_message
NetMsgs ==
    { <<>>,
      <<Fld(KeyAge, "int64", I64_30)>>,
      <<Fld(<<>>, "string", <<>>)>>,
      <<Fld(<<98>>, "binary", <<>>), Fld(<<>>, "int64", I64_min)>>,
      <<Fld(<<97>>, "float", F64_999)>> }

\* the bytes written and not yet read
wire == SubSeq(written, consumed + 1, Len(written))

closed == spc = "closed"

Min(a, b) == IF a < b THEN a ELSE b

\* line 171: the size asked of sock.recv
recv_request_n(nn, d) == nn

recv_request(nn, d) == nn - Len(d)

\* line 174: data += packet
recv_append_front(d, packet) == packet \o d

recv_append(d, packet) == d \o packet

\* line 170: the loop test of recvall
recv_more_le(nn, d) == Len(d) <= nn

recv_more(nn, d) == Len(d) < nn

\* line 199
header_short_never(h) == FALSE

header_short(h) == Len(h) < 4

\* line 203
payload_short_never(p, total_length) == FALSE

payload_short(p, total_length) == Len(p) < total_length

\* line 205: the buffer given to decode_message
recv_frame_payload(h, p) == p

recv_frame(h, p) == h \o p

\* line 172: if not packet
recv_eof_never(packet) == FALSE

recv_eof(packet) == packet = <<>>

\* the outcome of a call of recv_message; dbuf is the buffer given to
\* decode_message when dec
Outcome(st, res, L, hl, pl, pr, dc, db) ==
    [status |-> st, result |-> res, L |-> L, hlen |-> hl, plen |-> pl,
     pread |-> pr, dec |-> dc, dbuf |-> db, split |-> split,
     startpos |-> callStart, endpos |-> consumed]

\* the state before any call, with the messages the caller will send
NetInit(queues) ==
    /\ data = <<>>
    /\ enc = NoEnc
    /\ buf = <<>>
    /\ origin = "none"
    /\ extra = <<>>
    /\ iters = 0
    /\ payload = <<>>
    /\ offset = 0
    /\ result = EmptyDict
    /\ dpc = "idle"
    /\ derr = "none"
    /\ type_code = -1
    /\ shortSeen = FALSE
    /\ sendq \in queues
    /\ NetIdle

InitNet == NetInit(SeqsUpTo(NetMsgs, MaxMsgs))

recvVars ==
    <<consumed, rpc, n, rdata, eof, split, didRead, reads, reqOver,
      raStart, callStart, header, received>>

sendVars == <<sendq, sentOK, spc, outbuf, written, sres>>

\* lines 185-186: the bytes send_message hands to sock.sendall; the
\* exception of encode_message leaves send_message before line 186
send_plan_header_first(message) ==
    IF message.status = "ok" THEN message.bytes ELSE <<0, 0, 0, 0>>

send_plan(message) ==
    IF message.status = "ok" THEN message.bytes ELSE <<>>

\* line 186: what sock.sendall is given of the encoded frame
send_bytes_payload(frame) == SubSeq(frame, 5, Len(frame))

send_bytes(frame) == frame

\* send_message, line 185 and the call of sendall: an exception of the
\* encoder is the outcome of the call
send_message ==
    /\ spc = "idle"
    /\ sendq # <<>>
    /\ LET message == encode_message(Head(sendq))
           out == send_bytes(send_plan(message))
       IN  /\ outbuf' = out
           /\ spc' = IF out # <<>> THEN "sendall" ELSE "idle"
           /\ IF message.status = "ok"
              THEN /\ sentOK' = Append(sentOK, Head(sendq))
                   /\ UNCHANGED sres
              ELSE /\ sres' = Append(sres, message.status)
                   /\ UNCHANGED sentOK
    /\ sendq' = Tail(sendq)
    /\ UNCHANGED <<written, codecVars, recvVars>>

\* sock.sendall, line 186: the bytes reach the stream in order, some at a
\* time; send_message returns when the last one is written
sendall_write ==
    /\ spc = "sendall"
    /\ \E c \in 1..Len(outbuf) :
          /\ written' = written \o SubSeq(outbuf, 1, c)
          /\ outbuf' = SubSeq(outbuf, c + 1, Len(outbuf))
          /\ spc' = IF c = Len(outbuf) THEN "idle" ELSE "sendall"
          /\ sres' = IF c = Len(outbuf) THEN Append(sres, "ok") ELSE sres
    /\ UNCHANGED <<sendq, sentOK, codecVars, recvVars>>

\* sock.sendall, line 186, raises OSError: send_message does not catch it,
\* the bytes not yet written are lost
sendall_error ==
    /\ spc = "sendall"
    /\ spc' = "failed"
    /\ outbuf' = <<>>
    /\ sres' = Append(sres, "OSError")
    /\ UNCHANGED <<sendq, sentOK, written, codecVars, recvVars>>

\* the sending side closes the stream, between two messages or in the
\* middle of one
close ==
    /\ spc # "closed"
    /\ spc' = "closed"
    /\ outbuf' = <<>>
    /\ UNCHANGED <<sendq, sentOK, written, sres, codecVars, recvVars>>

\* recv_message, line 198: enters recvall(sock, 4)
recv_message_call ==
    /\ rpc = "idle"
    /\ Len(received) < MaxMsgs
    /\ rpc' = "header"
    /\ n' = 4
    /\ rdata' = <<>>
    /\ eof' = FALSE
    /\ split' = FALSE
    /\ didRead' = FALSE
    /\ reads' = 0
    /\ raStart' = consumed
    /\ callStart' = consumed
    /\ header' = <<>>
    /\ UNCHANGED <<consumed, reqOver, received, codecVars, sendVars>>

\* recvall, lines 170-174: one sock.recv(req).  It returns b"" at once when
\* req is 0; otherwise it blocks until the stream has a byte or is closed,
\* and returns 1..req of the bytes there are, or b"" at the end of a closed
\* stream.  reads counts the calls where they are counted
recv_once(counted) ==
    /\ rpc \in {"header", "payload"}
    /\ ~eof
    /\ recv_more(n, rdata)
    /\ reads <= n + 1
    /\ LET req == recv_request(n, rdata)
       IN  /\ req = 0 \/ wire # <<>> \/ closed
           /\ reqOver' = (reqOver \/ req > n - Len(rdata))
           /\ IF req > 0 /\ wire # <<>>
              THEN \E c \in 1..Min(req, Len(wire)) :
                      /\ rdata' = recv_append(rdata, SubSeq(wire, 1, c))
                      /\ consumed' = consumed + c
                      /\ split' = (split \/ c < req)
                      /\ eof' = recv_eof(SubSeq(wire, 1, c))
              ELSE /\ eof' = recv_eof(<<>>)
                   /\ UNCHANGED <<rdata, consumed, split>>
    /\ didRead' = TRUE
    /\ reads' = IF counted THEN reads + 1 ELSE reads
    /\ UNCHANGED <<rpc, n, raStart, callStart, header, received, codecVars,
                   sendVars>>

sock_recv == recv_once(FALSE)

sock_recv_counted == recv_once(TRUE)

RecvallReturned == rpc \in {"header", "payload"} /\ (eof \/ ~recv_more(n, rdata))

\* recv_message, lines 198-202: recvall(sock, 4) has returned
recv_header ==
    /\ rpc = "header"
    /\ RecvallReturned
    /\ IF header_short(rdata)
       THEN /\ received' = Append(received,
                   Outcome("HeaderReadFailed", EmptyDict, -1, Len(rdata), 0,
                           FALSE, FALSE, <<>>))
            /\ rpc' = "idle"
            /\ UNCHANGED <<n, rdata, eof, didRead, reads, raStart, header>>
       ELSE /\ header' = rdata
            /\ n' = unpack_U32(rdata)
            /\ rpc' = "payload"
            /\ rdata' = <<>>
            /\ eof' = FALSE
            /\ didRead' = FALSE
            /\ reads' = 0
            /\ raStart' = consumed
            /\ UNCHANGED received
    /\ UNCHANGED <<consumed, split, reqOver, callStart, codecVars, sendVars>>

\* recv_message, lines 202-205: recvall(sock, total_length) has returned
recv_payload ==
    /\ rpc = "payload"
    /\ RecvallReturned
    /\ LET total_length == n
       IN  IF payload_short(rdata, total_length)
           THEN received' = Append(received,
                    Outcome("PayloadReadFailed", EmptyDict, total_length,
                            Len(header), Len(rdata), didRead, FALSE, <<>>))
           ELSE \E d \in {decode_message(recv_frame(header, rdata))} :
                    received' = Append(received,
                        Outcome(d.status, d.result, total_length,
                                Len(header), Len(rdata), didRead, TRUE,
                                recv_frame(header, rdata)))
    /\ rpc' = "idle"
    /\ UNCHANGED <<consumed, n, rdata, eof, split, didRead, reads, reqOver,
                   raStart, callStart, header, codecVars, sendVars>>

NextNet ==
    \/ send_message
    \/ sendall_write
    \/ sendall_error
    \/ close
    \/ recv_message_call
    \/ sock_recv
    \/ recv_header
    \/ recv_payload

SpecNet == InitNet /\ [][NextNet]_vars

\* the thread in recv_message runs: a sock.recv that can return does, and
\* the code after recvall is executed
InitNetLive == NetInit(SeqsUpTo(NetMsgs, 1))

NextNetLive ==
    \/ send_message
    \/ sendall_write
    \/ sendall_error
    \/ close
    \/ recv_message_call
    \/ sock_recv_counted
    \/ recv_header
    \/ recv_payload

SpecNetLive ==
    /\ InitNetLive
    /\ [][NextNetLive]_vars
    /\ WF_vars(sock_recv_counted)
    /\ WF_vars(recv_header)
    /\ WF_vars(recv_payload)

\* A peer that does not use send_message: streams of frames the encoder
\* does not make, of bytes that are no frame, of a length no stream has
RawStreams ==
    { <<0, 0, 0, 0, 0, 0, 0, 0>>,
      <<0, 0, 0, 2, 255, 255>>,
      <<0, 0, 0, 3, 0, 0, 9, 0, 0, 0, 0>>,
      <<0, 0, 0, 7, 0, 0, 4, 0, 0, 0, 0, 0, 0>>,
      <<0, 0, 0, 1, 7, 0>>,
      <<64, 0, 0, 0, 1, 2>>,
      <<0, 0, 1, 0, 5>> }

InitRaw == NetInit({<<>>})

\* the peer hands its bytes to the stream
raw_write ==
    /\ spc = "idle"
    /\ written = <<>>
    /\ \E st \in RawStreams : outbuf' = st
    /\ spc' = "sendall"
    /\ UNCHANGED <<sendq, sentOK, written, sres, codecVars, recvVars>>

NextRaw ==
    \/ raw_write
    \/ sendall_write
    \/ sendall_error
    \/ close
    \/ recv_message_call
    \/ sock_recv
    \/ recv_header
    \/ recv_payload

SpecRaw == InitRaw /\ [][NextRaw]_vars

\* ------------------------------------------------------------------------
\* Properties of the codec (specification Spec)
\* ------------------------------------------------------------------------
WellTyped(f) ==
    /\ f.typ \in SupportedTypes
    /\ f.typ = "int64" => InRangeI64(f.value)
    /\ f.typ = "uint64" => InRangeU64(f.value)

ValidMessage(m) == \A i \in 1..Len(m) : WellTyped(m[i])

\* C1: round trip.  Decoding the frame encode_message made of a valid
\* message never fails, and returns the mapping with exactly the keys of the
\* message, each with the (type, value) of the message, in whatever order
\* the message was iterated.
C1_RoundTrip ==
    (ValidMessage(data) /\ origin = "frame") =>
        /\ dpc # "raised"
        /\ dpc = "returned" => result = AsDict(data)

C1_Witness ==
    /\ origin = "frame"
    /\ dpc = "returned"
    /\ Len(data) >= 2
    /\ \E i \in 1..Len(data) : data[i].value = I64_min
    /\ result = AsDict(data)

C1_WitnessEmpty ==
    origin = "frame" /\ dpc = "returned" /\ data = <<>>

\* C2: when a string or binary field declares more bytes than the payload
\* has left, decode_message does not return a mapping (it fails, with
\* BufferUnderrun), and whenever it returns a mapping the cursor stands
\* exactly at the end of the payload.
C2_NoTruncatedValue ==
    /\ shortSeen => dpc # "returned"
    /\ dpc = "returned" => offset = Len(payload)

\* C3 as stated: decoding a strict prefix of a valid frame fails with
\* Incomplete or BufferUnderrun.
C3_PrefixFailsAsStated ==
    (origin = "prefix" /\ dpc \notin {"ready"}) =>
        /\ dpc = "raised"
        /\ derr \in {"Incomplete", "BufferUnderrun"}

\* C3 amended: decoding a strict prefix of a valid frame fails, with TooShort
\* when the prefix has fewer than 4 bytes and with Incomplete or
\* BufferUnderrun otherwise; no mapping is returned and no field is read.
C3_PrefixFails ==
    (origin = "prefix" /\ dpc \notin {"ready"}) =>
        /\ dpc = "raised"
        /\ derr \in {"TooShort", "Incomplete", "BufferUnderrun"}
        /\ derr = "TooShort" <=> Len(buf) < 4
        /\ payload = <<>>
        /\ type_code = -1

C3_Witness ==
    /\ origin = "prefix"
    /\ dpc = "raised"
    /\ derr = "Incomplete"
    /\ Len(buf) > 4
    /\ Len(data) >= 2

C3_WitnessShort ==
    origin = "prefix" /\ dpc = "raised" /\ derr = "TooShort" /\ Len(buf) = 3

\* C4: a type code outside 1..5 read by the decoder makes decode_message
\* fail with UnknownTypeCode; nothing is returned, whatever was parsed
\* before.
C4_UnknownTypeCode ==
    (type_code \notin {-1, 1, 2, 3, 4, 5}) =>
        (dpc = "raised" /\ derr = "UnknownTypeCode")

C4_Witness ==
    /\ type_code \notin {-1, 1, 2, 3, 4, 5}
    /\ dpc = "raised"
    /\ derr = "UnknownTypeCode"
    /\ DOMAIN result # {}

\* C9: a field with a type tag that is none of the five makes encode_message
\* fail with UnsupportedType and produce no byte, however many well-typed
\* fields come before it.
UnsupportedAfterWellTyped(m) ==
    \E i \in 1..Len(m) :
        /\ m[i].typ \notin SupportedTypes
        /\ \A j \in 1..(i - 1) : WellTyped(m[j])

RECURSIVE BE(_, _)
BE(x, w) == IF w = 0 THEN <<>> ELSE BE(x \div 256, w - 1) \o <<x % 256>>

WireKey(k) ==
    IF k = KeyAge THEN <<97, 103, 101>>
    ELSE IF k = <<233>> THEN <<195, 169>>
    ELSE k

WireValue(v) ==
    IF v = I64_30 THEN <<0, 0, 0, 0, 0, 0, 0, 30>>
    ELSE IF v = I64_m1 THEN <<255, 255, 255, 255, 255, 255, 255, 255>>
    ELSE IF v = I64_min THEN <<128, 0, 0, 0, 0, 0, 0, 0>>
    ELSE IF v = I64_max THEN <<127, 255, 255, 255, 255, 255, 255, 255>>
    ELSE IF v = U64_max THEN <<255, 255, 255, 255, 255, 255, 255, 255>>
    ELSE IF v = U64_0 THEN <<0, 0, 0, 0, 0, 0, 0, 0>>
    ELSE IF v = F64_999 THEN <<64, 35, 250, 225, 71, 174, 20, 123>>
    ELSE IF v = F64_ninf THEN <<255, 240, 0, 0, 0, 0, 0, 0>>
    ELSE IF v = StrAEuro THEN <<65, 226, 130, 172, 240, 159, 152, 128>>
    ELSE v

WireCode(t) ==
    IF t = "int64" THEN 1
    ELSE IF t = "uint64" THEN 2
    ELSE IF t = "float64" THEN 3
    ELSE IF t = "string" THEN 4
    ELSE 5

WireField(f) ==
    BE(Len(WireKey(f.key)), 2) \o WireKey(f.key) \o <<WireCode(f.typ)>>
        \o (IF f.typ \in {"string", "binary"}
            THEN BE(Len(WireValue(f.value)), 4) ELSE <<>>)
        \o WireValue(f.value)

RECURSIVE WirePayload(_)
WirePayload(m) ==
    IF m = <<>> THEN <<>> ELSE WireField(Head(m)) \o WirePayload(Tail(m))

AgeFrame == <<0, 0, 0, 14, 0, 3, 97, 103, 101, 1, 0, 0, 0, 0, 0, 0, 0, 30>>

C10_FrameLayout ==
    (enc.status # "none" /\ ValidMessage(data)) =>
        /\ enc.status = "ok"
        /\ enc.bytes = BE(Len(WirePayload(data)), 4) \o WirePayload(data)
        /\ data = <<Fld(KeyAge, "int64", I64_30)>> => enc.bytes = AgeFrame

C10_Witness ==
    /\ data = <<Fld(KeyAge, "int64", I64_30)>>
    /\ enc.status = "ok"
    /\ enc.bytes = AgeFrame

C10_WitnessTwo ==
    /\ enc.status = "ok"
    /\ Len(data) >= 2
    /\ data[1].typ = "string"
    /\ data[1].value = StrAEuro

\* ------------------------------------------------------------------------
\* Properties of the transport (specification SpecNet)
\* ------------------------------------------------------------------------
FrameOf(m) == encode_message(m).bytes

\* the number of bytes of the frames of the first i messages of ms
RECURSIVE FramesLen(_, _)
FramesLen(ms, i) ==
    IF i = 0 THEN 0 ELSE FramesLen(ms, i - 1) + Len(FrameOf(ms[i]))

\* the i-th recv_message has finished and the i-th frame was written whole
Delivered(i) ==
    /\ i <= Len(received)
    /\ i <= Len(sentOK)
    /\ FramesLen(sentOK, i) <= Len(written)

\* C5: chunking independence.  However the reads split the bytes of the
\* frame of a message, recv_message has the outcome of decode_message on
\* the whole frame.
C5_ChunkingIndependence ==
    \A i \in 1..Len(received) :
        Delivered(i) =>
            LET d == decode_message(FrameOf(sentOK[i]))
            IN  /\ received[i].status = d.status
                /\ received[i].result = d.result

C5_Witness ==
    \E i \in 1..Len(received) :
        /\ Delivered(i)
        /\ received[i].split
        /\ received[i].status = "ok"
        /\ DOMAIN received[i].result # {}
        /\ received[i].result = decode_message(FrameOf(sentOK[i])).result

\* C6: framing and order.  The i-th recv_message returns the content of the
\* i-th message sent and consumes exactly the 4+L bytes of its frame, L
\* being the header value read; a call in progress has consumed no byte
\* past the frame it is reading.
C6_FramingAndOrder ==
    /\ \A i \in 1..Len(received) :
          Delivered(i) =>
              /\ received[i].status = "ok"
              /\ received[i].result = AsDict(sentOK[i])
              /\ received[i].endpos - received[i].startpos
                    = 4 + received[i].L
              /\ received[i].startpos = FramesLen(sentOK, i - 1)
              /\ received[i].endpos = FramesLen(sentOK, i)
    /\ (rpc # "idle" /\ Len(received) < Len(sentOK)) =>
          consumed <= FramesLen(sentOK, Len(received) + 1)

C6_Witness ==
    /\ Len(received) = 2
    /\ Delivered(2)
    /\ received[1].status = "ok"
    /\ received[2].status = "ok"
    /\ received[2].split
    /\ sentOK[1] # sentOK[2]
    /\ received[2].result = AsDict(sentOK[2])
    /\ DOMAIN received[1].result # {}

\* C7: short reads.  A stream that closes after fewer than 4 bytes makes
\* recv_message fail with HeaderReadFailed without a payload read; one that
\* closes after the header and fewer than L payload bytes makes it fail with
\* PayloadReadFailed; the decoder is not called and nothing is returned.
C7_ShortReadErrors ==
    \A i \in 1..Len(received) :
        LET r == received[i]
            got == r.endpos - r.startpos
        IN  /\ (r.hlen < 4 \/ got < 4) =>
                /\ r.status = "HeaderReadFailed"
                /\ ~r.pread
                /\ r.plen = 0
                /\ ~r.dec
                /\ r.result = EmptyDict
            /\ (r.hlen = 4 /\ got < 4 + r.L) =>
                /\ r.status = "PayloadReadFailed"
                /\ ~r.dec
                /\ r.result = EmptyDict

C7_Witness ==
    /\ Len(received) = 2
    /\ received[1].status = "PayloadReadFailed"
    /\ received[1].plen > 0
    /\ received[2].status = "HeaderReadFailed"

C7_WitnessHeader ==
    /\ Len(received) = 1
    /\ received[1].status = "HeaderReadFailed"
    /\ received[1].hlen = 3

\* C8: recvall.  Its data is the bytes read from the stream, in order; it
\* never holds more than n bytes and no read asks for more than n less the
\* bytes already held; it returns n bytes, or, after an empty read, all the
\* bytes the stream delivered, fewer than n; with n = 0 it returns b""
\* without a read.
C8_RecvallResult ==
    rpc \in {"header", "payload"} =>
        /\ rdata = SubSeq(written, raStart + 1, consumed)
        /\ Len(rdata) <= n
        /\ ~reqOver
        /\ RecvallReturned =>
              IF eof
              THEN Len(rdata) < n /\ consumed = Len(written) /\ closed
              ELSE Len(rdata) = n
        /\ n = 0 => (~didRead /\ rdata = <<>> /\ RecvallReturned)

C8_Witness ==
    /\ rpc = "payload"
    /\ RecvallReturned
    /\ eof
    /\ Len(rdata) > 0
    /\ Len(rdata) < n
    /\ split

C8_WitnessZero ==
    rpc = "payload" /\ n = 0 /\ RecvallReturned /\ ~didRead

\* ------------------------------------------------------------------------
\* Properties of send_message (specification SpecNet)
\* ------------------------------------------------------------------------
RECURSIVE Frames(_)
Frames(ms) == IF ms = <<>> THEN <<>> ELSE FrameOf(Head(ms)) \o Frames(Tail(ms))

IsPrefix(a, b) == Len(a) <= Len(b) /\ a = SubSeq(b, 1, Len(a))

OkCount(rs) == Cardinality({ i \in 1..Len(rs) : rs[i] = "ok" })

\* C11: the stream holds the frames of the messages sent, whole and in
\* order, with nothing before, between or after them: during a sendall the
\* bytes written and those still to write make up the frames, after a call
\* that returned all of them are written, and the stream falls short only
\* when a write raised, which send_message passed on to its caller, or when
\* the stream was closed in the middle of a call.
C11_SendWritesFrame ==
    /\ IsPrefix(written, Frames(sentOK))
    /\ spc = "sendall" => written \o outbuf = Frames(sentOK)
    /\ spc = "idle" =>
          (written = Frames(sentOK) /\ OkCount(sres) = Len(sentOK))
    /\ spc = "failed" =>
          (sres # <<>> /\ sres[Len(sres)] = "OSError"
             /\ OkCount(sres) = Len(sentOK) - 1)

C11_Witness ==
    /\ spc = "idle"
    /\ Len(sentOK) = 2
    /\ sentOK[1] # sentOK[2]
    /\ sres = <<"ok", "ok">>
    /\ written = Frames(sentOK)
    /\ Len(written) > 8

C11_WitnessError ==
    /\ spc = "failed"
    /\ Len(sentOK) = 2
    /\ sres = <<"ok", "OSError">>
    /\ Len(written) > Len(FrameOf(sentOK[1]))
    /\ Len(written) < Len(Frames(sentOK))

\* C19: a send_message that fails in the encoder writes nothing: the step
\* that ends a call with UnsupportedType leaves the stream and the bytes to
\* write as they were, and no sendall is under way after it.
C19_EncodeFailureWritesNothing ==
    [][(Len(sres') = Len(sres) + 1 /\ sres'[Len(sres')] = "UnsupportedType")
          => (written' = written /\ outbuf' = <<>> /\ outbuf = <<>>
                /\ spc' = "idle"
                /\ IsPrefix(written', Frames(sentOK')))]_vars

C19_Witness ==
    /\ Len(sres) = 2
    /\ sres[1] = "ok"
    /\ sres[2] = "UnsupportedType"
    /\ Len(sentOK) = 1
    /\ written = FrameOf(sentOK[1])
    /\ spc = "idle"

\* ------------------------------------------------------------------------
\* Properties of the decoder's loop (specification Spec)
\* ------------------------------------------------------------------------
\* The field that starts at cursor o of payload p, read off the wire layout:
\* key length (2 bytes), key, type code (1 byte), value.
KeyLenAt(p, o) == (p[o + 1] * 256) + p[o + 2]

TypePosAt(p, o) == o + 2 + KeyLenAt(p, o)

\* the bytes left or the type code are not enough for a fixed-size read
UnderrunAt(p, o) ==
    IF Len(p) - o < 2 THEN TRUE
    ELSE IF Len(p) - (o + 2) < KeyLenAt(p, o) THEN TRUE
    ELSE IF Len(p) - TypePosAt(p, o) < 1 THEN TRUE
    ELSE LET tc   == p[TypePosAt(p, o) + 1]
             left == Len(p) - (TypePosAt(p, o) + 1)
         IN  \/ tc \in {1, 2, 3} /\ left < 8
             \/ tc \in {4, 5} /\ left < 4

\* C12: an iteration that starts where fewer than 2 bytes are left for the
\* key length, fewer than key_len for the key, none for the type code, fewer
\* than 8 for a numeric value or fewer than 4 for a length prefix makes
\* decode_message fail: it stores nothing and returns no mapping.
C12_FixedSizeUnderrun ==
    [][(dpc = "loop" /\ offset < Len(payload)
          /\ UnderrunAt(payload, offset))
          => (dpc' = "raised" /\ result' = result)]_vars

\* the key ran past the end of the payload
C12_Witness ==
    /\ dpc = "raised"
    /\ derr = "BufferUnderrun"
    /\ type_code = -1
    /\ offset > Len(payload)

\* C13: duplicate keys, last wins.  A well-formed payload with a key in two
\* fields decodes without error to a mapping with the keys of the message,
\* the repeated key mapped to the (type, value) of the field that comes
\* last in the payload, whatever the type codes of the two.
DupExpected ==
    [k \in { data[i].key : i \in 1..Len(data) } |->
        IF origin = "dup_last" /\ k = extra[1].key
        THEN <<extra[1].typ, extra[1].value>>
        ELSE AsDict(data)[k]]

C13_DuplicateKeysLastWins ==
    origin \in {"dup_last", "dup_first"} =>
        /\ dpc # "raised"
        /\ dpc = "returned" => result = DupExpected

C13_Witness ==
    /\ origin = "dup_last"
    /\ dpc = "returned"
    /\ Len(data) = 2
    /\ extra[1].typ # AsDict(data)[extra[1].key][1]
    /\ result[extra[1].key] = <<extra[1].typ, extra[1].value>>
    /\ result # AsDict(data)

C13_WitnessFirst ==
    /\ origin = "dup_first"
    /\ dpc = "returned"
    /\ extra[1].typ # AsDict(data)[extra[1].key][1]
    /\ result = AsDict(data)

\* C14: trailing bytes are ignored.  A buffer of at least 4 + declared_len
\* bytes has the outcome of its first 4 + declared_len bytes; a frame
\* followed by other bytes decodes to the message of the frame.
DeclaredLen(b) ==
    IF b[1] = 0 /\ b[2] = 0 THEN (b[3] * 256) + b[4] ELSE HugeLen

C14_TrailingBytesIgnored ==
    /\ (dpc \in {"returned", "raised"} /\ Len(buf) >= 4
          /\ Len(buf) >= 4 + DeclaredLen(buf)) =>
          LET d == decode_message(SubSeq(buf, 1, 4 + DeclaredLen(buf)))
          IN  IF dpc = "returned"
              THEN d.status = "ok" /\ d.result = result
              ELSE d.status = derr
    /\ (origin = "trailing" /\ dpc \in {"returned", "raised"}) =>
          (dpc = "returned" /\ result = AsDict(data))

C14_Witness ==
    /\ origin = "trailing"
    /\ dpc = "returned"
    /\ Len(buf) = Len(enc.bytes) + 12
    /\ Len(data) >= 1
    /\ result = AsDict(data)
    /\ offset = Len(payload)

\* C17: invalid text is rejected, not returned.  An iteration whose key
\* bytes are not UTF-8 raises InvalidKeyEncoding; with a key read, a value of
\* type code 4 whose bytes are not UTF-8 raises InvalidStringEncoding; no
\* mapping is returned.  Under type code 5 the same bytes are stored
\* unchanged.
\* bytes no UTF-8 text has: 0xC0, 0xC1, 0xF5..0xFF anywhere, a continuation
\* byte first, a lead byte last
NotUtf8(bs) ==
    /\ bs # <<>>
    /\ \/ \E i \in 1..Len(bs) : bs[i] \in {192, 193} \/ bs[i] >= 245
       \/ (bs[1] >= 128 /\ bs[1] <= 191)
       \/ bs[Len(bs)] >= 192

AsciiOnly(bs) == \A i \in 1..Len(bs) : bs[i] < 128

\* the value of the 4 length bytes after position o, as far as a slice
\* can tell
LenAt(p, o) ==
    IF p[o + 1] = 0 /\ p[o + 2] = 0 THEN (p[o + 3] * 256) + p[o + 4]
    ELSE Len(p)

C17_InvalidTextRejected ==
    [][(dpc = "loop" /\ offset + 2 <= Len(payload)) =>
          LET tp == TypePosAt(payload, offset)
              kb == Slice(payload, offset + 2, tp)
              hasLen == tp + 5 <= Len(payload)
              db == Slice(payload, tp + 5, tp + 5 + LenAt(payload, tp + 1))
          IN  /\ NotUtf8(kb) =>
                    /\ dpc' = "raised"
                    /\ derr' = "InvalidKeyEncoding"
                    /\ result' = result
              /\ (AsciiOnly(kb) /\ hasLen /\ payload[tp + 1] = TYPE_STRING
                    /\ NotUtf8(db)) =>
                    /\ dpc' = "raised"
                    /\ derr' = "InvalidStringEncoding"
                    /\ result' = result
              /\ (AsciiOnly(kb) /\ hasLen /\ payload[tp + 1] = TYPE_BINARY) =>
                    /\ dpc' = "loop"
                    /\ kb \in DOMAIN result'
                    /\ result'[kb] = <<"binary", db>>]_vars

C17_Witness ==
    /\ dpc = "raised"
    /\ derr = "InvalidStringEncoding"
    /\ type_code = TYPE_STRING
    /\ origin = "corrupt"

C17_WitnessKey ==
    /\ dpc = "raised"
    /\ derr = "InvalidKeyEncoding"
    /\ origin = "corrupt"

C17_WitnessBytes ==
    /\ dpc = "returned"
    /\ \E k \in DOMAIN result :
          result[k][1] = "binary" /\ NotUtf8(result[k][2])

\* C18: decoder progress and termination.  An iteration of the loop that
\* does not fail moves offset forward by at least 7; the loop begins at most
\* len(payload)/7 + 1 iterations; a call of decode_message returns a mapping
\* or fails.
C18_DecoderProgress ==
    /\ [][(dpc = "loop" /\ dpc' = "loop" /\ iters' = iters + 1)
             => offset' >= offset + 7]_vars
    /\ [](iters <= (Len(payload) \div 7) + 1)
    /\ [](dpc = "ready" => <>(dpc \in {"returned", "raised"}))

C18_Witness ==
    /\ dpc = "returned"
    /\ iters = 2
    /\ Len(payload) = 14
    /\ offset = Len(payload)

C18_WitnessFail ==
    /\ dpc = "raised"
    /\ iters = 2
    /\ Len(payload) < 14

\* C15: whenever recv_message calls the decoder, the buffer it passes has
\* length 4 + L, L the big-endian value of its first 4 bytes, and is the
\* bytes of the stream the call has read; the decoder's TooShort and
\* Incomplete checks do not fail, whatever the stream holds.
C15_DecoderBufferExact ==
    \A i \in 1..Len(received) :
        received[i].dec =>
            LET b == received[i].dbuf
            IN  /\ Len(b) >= 4
                /\ Len(b) = 4 + DeclaredLen(b)
                /\ b = SubSeq(written, received[i].startpos + 1,
                              received[i].endpos)
                /\ received[i].status \notin {"TooShort", "Incomplete"}

C15_Witness ==
    \E i \in 1..Len(received) :
        /\ received[i].dec
        /\ received[i].status = "UnknownTypeCode"
        /\ Len(received[i].dbuf) = 7
        /\ received[i].split

C15_WitnessOk ==
    \E i \in 1..Len(received) :
        /\ received[i].dec
        /\ received[i].status = "ok"
        /\ Len(received[i].dbuf) = 11

\* C16: transport liveness.  recvall(sock, n) calls sock.recv at most n + 1
\* times; if every read that blocks returns in the end, a call of
\* recv_message returns or fails; a call that never finishes waits for ever
\* on a stream that has no byte for it and is not closed.
Blocked ==
    /\ rpc \in {"header", "payload"}
    /\ ~RecvallReturned
    /\ wire = <<>>
    /\ ~closed

C16_TransportLiveness ==
    /\ [](rpc \in {"header", "payload"} => reads <= n + 1)
    /\ [](Blocked => <>(~Blocked)) => [](rpc # "idle" => <>(rpc = "idle"))
    /\ <>[](rpc # "idle") => <>[]Blocked

C16_Witness ==
    /\ rpc = "header"
    /\ reads = 4
    /\ RecvallReturned
    /\ ~eof

C16_WitnessBlocked ==
    /\ Blocked
    /\ sendq = <<>>
    /\ spc = "failed"
    /\ rpc = "payload"
    /\ rdata # <<>>

====
